---------------------------- MODULE Spec2Model ----------------------------
(***************************************************************************)
(* A model of the encoding detector and UTF-8 converter of                 *)
(* src/utf8_converter_api.cpp (namespace enc).                             *)
(*                                                                         *)
(* A byte buffer is a sequence over 0..255; the C++ code indexes from 0,   *)
(* so At(b, i) reads b[i] of the source.  The pure functions of the        *)
(* source are operators that keep the source's names and are computed the  *)
(* way the source computes them (loops become recursion on the loop        *)
(* index).  The stateful part is the harness that calls them and the       *)
(* step-by-step file replacement of ConvertFileToUtf8Inplace.              *)
(***************************************************************************)
EXTENDS Integers, Sequences, FiniteSets

(***************************************************************************)
(* Bounds of the checked instances.                                        *)
(***************************************************************************)
\* longest tail after a BOM prefix (SpecBom)
MaxTail == 3
\* longest buffer of the UTF-8 family (SpecUtf8)
MaxUtf8Len == 6
\* longest buffer of the wide-heuristic family (SpecWide)
MaxWideLen == 8
\* most four-byte blocks of a buffer of the wide-heuristic family (SpecWide)
MaxWideBlocks == 4
\* longest buffer of the single-byte family (SpecSingle)
MaxSingleLen == 3
\* longest span given to the validator (SpecValidator)
MaxSpanLen == 4
\* most 16-bit units given to the UTF-16 decoder (SpecUtf16)
MaxUnits == 3
\* longest file content of the in-place replacement (SpecInplace)
MaxFileLen == 2
\* longest buffer given to the three decoders (SpecDecoders)
MaxDecodeLen == 5
\* longest code-point sequence scored (SpecScore)
MaxTextLen == 3
\* longest Cyrillic sequence appended to it (SpecScore)
MaxSuffixLen == 2

(***************************************************************************)
(* C++ arithmetic on unsigned values.                                      *)
(***************************************************************************)
\* b[i] of a 0-indexed buffer
At(b, i) == b[i + 1]

\* a & b
RECURSIVE BitAnd(_, _)
BitAnd(a, b) ==
    IF a = 0 \/ b = 0 THEN 0
    ELSE (a % 2) * (b % 2) + 2 * BitAnd(a \div 2, b \div 2)

\* a | b
RECURSIVE BitOr(_, _)
BitOr(a, b) ==
    IF a = 0 THEN b
    ELSE IF b = 0 THEN a
    ELSE (IF a % 2 = 1 \/ b % 2 = 1 THEN 1 ELSE 0) + 2 * BitOr(a \div 2, b \div 2)

\* static_cast<char>(x): the low eight bits
ToChar(x) == x % 256

\* p + off, n - off: the span of a buffer from offset off
Span(b, off) == SubSeq(b, off + 1, Len(b))

(***************************************************************************)
(* is_valid_utf8                                                           *)
(***************************************************************************)
\* a continuation test with the wrong pattern (11xxxxxx for 10xxxxxx)
ContinuationsOk_WrongMask(s, i, extra) ==
    \A j \in 1..extra : BitAnd(At(s, i + j), \hC0) = \hC0

\* the continuation test of the inner for loop, j = 1..extra
ContinuationsOk(s, i, extra) ==
    \A j \in 1..extra : BitAnd(At(s, i + j), \hC0) = \h80

\* a second-byte test that lets encoded surrogates (ED A0..BF) through
SecondByteOk_NoSurrogate(c, c1, extra) ==
    IF extra = 2 THEN ~(c = \hE0 /\ c1 < \hA0)
    ELSE IF extra = 3 THEN ~(c = \hF0 /\ c1 < \h90) /\ ~(c = \hF4 /\ c1 >= \h90)
    ELSE TRUE

\* the overlong, surrogate and range tests on the second byte c1 = s[i+1]
SecondByteOk(c, c1, extra) ==
    IF extra = 2 THEN ~(c = \hE0 /\ c1 < \hA0) /\ ~(c = \hED /\ c1 >= \hA0)
    ELSE IF extra = 3 THEN ~(c = \hF0 /\ c1 < \h90) /\ ~(c = \hF4 /\ c1 >= \h90)
    ELSE TRUE

\* the while loop of is_valid_utf8 from index i
RECURSIVE is_valid_utf8_from(_, _)
is_valid_utf8_from(s, i) ==
    LET n == Len(s) IN
    IF ~(i < n) THEN TRUE
    ELSE
      LET c == At(s, i)
          extra == IF BitAnd(c, \hE0) = \hC0 THEN 1
                   ELSE IF BitAnd(c, \hF0) = \hE0 THEN 2
                   ELSE IF BitAnd(c, \hF8) = \hF0 THEN 3
                   ELSE 0
      IN
      IF c <= \h7F THEN is_valid_utf8_from(s, i + 1)
      ELSE IF extra = 0 THEN FALSE
      ELSE IF extra = 1 /\ c < \hC2 THEN FALSE
      ELSE IF extra = 3 /\ c > \hF4 THEN FALSE
      ELSE IF i + extra >= n THEN FALSE
      ELSE IF ~ContinuationsOk(s, i, extra) THEN FALSE
      ELSE IF ~SecondByteOk(c, At(s, i + 1), extra) THEN FALSE
      ELSE is_valid_utf8_from(s, i + extra + 1)

is_valid_utf8(s) == is_valid_utf8_from(s, 0)

(***************************************************************************)
(* append_utf8, u32_to_utf8                                                *)
(***************************************************************************)
append_utf8(out, cp) ==
    IF cp <= \h7F THEN Append(out, ToChar(cp))
    ELSE IF cp <= \h7FF THEN
        out \o << ToChar(BitOr(\hC0, cp \div 64)),
                  ToChar(BitOr(\h80, BitAnd(cp, \h3F))) >>
    ELSE IF cp <= \hFFFF THEN
        out \o << ToChar(BitOr(\hE0, cp \div 4096)),
                  ToChar(BitOr(\h80, BitAnd(cp \div 64, \h3F))),
                  ToChar(BitOr(\h80, BitAnd(cp, \h3F))) >>
    ELSE
        out \o << ToChar(BitOr(\hF0, cp \div 262144)),
                  ToChar(BitOr(\h80, BitAnd(cp \div 4096, \h3F))),
                  ToChar(BitOr(\h80, BitAnd(cp \div 64, \h3F))),
                  ToChar(BitOr(\h80, BitAnd(cp, \h3F))) >>

RECURSIVE u32_to_utf8_from(_, _, _)
u32_to_utf8_from(u32, k, out) ==
    IF k > Len(u32) THEN out
    ELSE u32_to_utf8_from(u32, k + 1, append_utf8(out, u32[k]))

u32_to_utf8(u32) == u32_to_utf8_from(u32, 1, << >>)

(***************************************************************************)
(* detect_bom                                                              *)
(***************************************************************************)
\* std::nullopt
NoBom == [name |-> "", size |-> 0]

BomInfo(name, size) == [name |-> name, size |-> size]

detect_bom(b) ==
    IF Len(b) >= 3 /\ At(b, 0) = \hEF /\ At(b, 1) = \hBB /\ At(b, 2) = \hBF
        THEN BomInfo("UTF-8", 3)
    ELSE IF Len(b) >= 2 /\ At(b, 0) = \hFF /\ At(b, 1) = \hFE
        THEN BomInfo("UTF-16LE", 2)
    ELSE IF Len(b) >= 2 /\ At(b, 0) = \hFE /\ At(b, 1) = \hFF
        THEN BomInfo("UTF-16BE", 2)
    ELSE IF Len(b) >= 4 /\ At(b, 0) = \hFF /\ At(b, 1) = \hFE
                        /\ At(b, 2) = \h00 /\ At(b, 3) = \h00
        THEN BomInfo("UTF-32LE", 4)
    ELSE IF Len(b) >= 4 /\ At(b, 0) = \h00 /\ At(b, 1) = \h00
                        /\ At(b, 2) = \hFE /\ At(b, 3) = \hFF
        THEN BomInfo("UTF-32BE", 4)
    ELSE NoBom

(***************************************************************************)
(* The heuristics for UTF-16/32 without a BOM.                             *)
(***************************************************************************)
\* for (i = 0; i + 1 < b.size(); i += 2) cnt += (b[i + d] == 0), from index i
RECURSIVE CountZeros16(_, _, _)
CountZeros16(b, i, d) ==
    IF ~(i + 1 < Len(b)) THEN 0
    ELSE (IF At(b, i + d) = 0 THEN 1 ELSE 0) + CountZeros16(b, i + 2, d)

\* for (i = 0; i + 3 < b.size(); i += 4) cnt += (three bytes from b[i + d] == 0)
RECURSIVE CountZeros32(_, _, _)
CountZeros32(b, i, d) ==
    IF ~(i + 3 < Len(b)) THEN 0
    ELSE (IF At(b, i + d) = 0 /\ At(b, i + d + 1) = 0 /\ At(b, i + d + 2) = 0
          THEN 1 ELSE 0) + CountZeros32(b, i + 4, d)

looks_like_utf16_le(b) ==
    IF Len(b) < 6 THEN FALSE
    ELSE LET zeros_odd == CountZeros16(b, 0, 1)
             zeros_even == CountZeros16(b, 0, 0)
         IN zeros_odd > zeros_even * 3 /\ zeros_odd > Len(b) \div 8

looks_like_utf16_be(b) ==
    IF Len(b) < 6 THEN FALSE
    ELSE LET zeros_even == CountZeros16(b, 0, 0)
             zeros_odd == CountZeros16(b, 0, 1)
         IN zeros_even > zeros_odd * 3 /\ zeros_even > Len(b) \div 8

looks_like_utf32_le(b) ==
    IF Len(b) < 8 THEN FALSE
    ELSE CountZeros32(b, 0, 1) > Len(b) \div 16

looks_like_utf32_be(b) ==
    IF Len(b) < 8 THEN FALSE
    ELSE CountZeros32(b, 0, 0) > Len(b) \div 16

(***************************************************************************)
(* The single-byte tables, 0x80..0xFF.                                     *)
(***************************************************************************)
CP1251_TABLE ==
    << \h0402, \h0403, \h201A, \h0453, \h201E, \h2026, \h2020, \h2021,
       \h20AC, \h2030, \h0409, \h2039, \h040A, \h040C, \h040B, \h040F,
       \h0452, \h2018, \h2019, \h201C, \h201D, \h2022, \h2013, \h2014,
       \h0000, \h2122, \h0459, \h203A, \h045A, \h045C, \h045B, \h045F,
       \h00A0, \h040E, \h045E, \h0408, \h00A4, \h0490, \h00A6, \h00A7,
       \h0401, \h00A9, \h0404, \h00AB, \h00AC, \h00AD, \h00AE, \h0407,
       \h00B0, \h00B1, \h0406, \h0456, \h0491, \h00B5, \h00B6, \h00B7,
       \h0451, \h2116, \h0454, \h00BB, \h0458, \h0405, \h0455, \h0457,
       \h0410, \h0411, \h0412, \h0413, \h0414, \h0415, \h0416, \h0417,
       \h0418, \h0419, \h041A, \h041B, \h041C, \h041D, \h041E, \h041F,
       \h0420, \h0421, \h0422, \h0423, \h0424, \h0425, \h0426, \h0427,
       \h0428, \h0429, \h042A, \h042B, \h042C, \h042D, \h042E, \h042F,
       \h0430, \h0431, \h0432, \h0433, \h0434, \h0435, \h0436, \h0437,
       \h0438, \h0439, \h043A, \h043B, \h043C, \h043D, \h043E, \h043F,
       \h0440, \h0441, \h0442, \h0443, \h0444, \h0445, \h0446, \h0447,
       \h0448, \h0449, \h044A, \h044B, \h044C, \h044D, \h044E, \h044F >>

KOI8R_TABLE ==
    << \h2500, \h2502, \h250C, \h2510, \h2514, \h2518, \h251C, \h2524,
       \h252C, \h2534, \h253C, \h2580, \h2584, \h2588, \h258C, \h2590,
       \h2591, \h2592, \h2593, \h2320, \h25A0, \h2219, \h221A, \h2248,
       \h2264, \h2265, \h00A0, \h2321, \h00B0, \h00B2, \h00B7, \h00F7,
       \h2550, \h2551, \h2552, \h0451, \h2553, \h2554, \h2555, \h2556,
       \h2557, \h2558, \h2559, \h255A, \h255B, \h255C, \h255D, \h255E,
       \h255F, \h2560, \h2561, \h0401, \h2562, \h2563, \h2564, \h2565,
       \h2566, \h2567, \h2568, \h2569, \h256A, \h256B, \h256C, \h00A9,
       \h044E, \h0430, \h0431, \h0446, \h0434, \h0435, \h0444, \h0433,
       \h0445, \h0438, \h0439, \h043A, \h043B, \h043C, \h043D, \h043E,
       \h043F, \h044F, \h0440, \h0441, \h0442, \h0443, \h0436, \h0432,
       \h044C, \h044B, \h0437, \h0448, \h044D, \h0449, \h0447, \h044A,
       \h042E, \h0410, \h0411, \h0426, \h0414, \h0415, \h0424, \h0413,
       \h0425, \h0418, \h0419, \h041A, \h041B, \h041C, \h041D, \h041E,
       \h041F, \h042F, \h0420, \h0421, \h0422, \h0423, \h0416, \h0412,
       \h042C, \h042B, \h0417, \h0428, \h042D, \h0429, \h0427, \h042A >>

ISO8859_5_TABLE ==
    << \h0080, \h0081, \h0082, \h0083, \h0084, \h0085, \h0086, \h0087,
       \h0088, \h0089, \h008A, \h008B, \h008C, \h008D, \h008E, \h008F,
       \h0090, \h0091, \h0092, \h0093, \h0094, \h0095, \h0096, \h0097,
       \h0098, \h0099, \h009A, \h009B, \h009C, \h009D, \h009E, \h009F,
       \h00A0, \h0401, \h0402, \h0403, \h0404, \h0405, \h0406, \h0407,
       \h0408, \h0409, \h040A, \h040B, \h040C, \h00AD, \h040E, \h040F,
       \h0410, \h0411, \h0412, \h0413, \h0414, \h0415, \h0416, \h0417,
       \h0418, \h0419, \h041A, \h041B, \h041C, \h041D, \h041E, \h041F,
       \h0420, \h0421, \h0422, \h0423, \h0424, \h0425, \h0426, \h0427,
       \h0428, \h0429, \h042A, \h042B, \h042C, \h042D, \h042E, \h042F,
       \h0430, \h0431, \h0432, \h0433, \h0434, \h0435, \h0436, \h0437,
       \h0438, \h0439, \h043A, \h043B, \h043C, \h043D, \h043E, \h043F,
       \h0440, \h0441, \h0442, \h0443, \h0444, \h0445, \h0446, \h0447,
       \h0448, \h0449, \h044A, \h044B, \h044C, \h044D, \h044E, \h044F,
       \h2116, \h0451, \h0452, \h0453, \h0454, \h0455, \h0456, \h0457,
       \h0458, \h0459, \h045A, \h045B, \h045C, \h00A7, \h045E, \h045F >>

MACCYR_TABLE ==
    << \h0410, \h0411, \h0412, \h0413, \h0414, \h0415, \h0416, \h0417,
       \h0418, \h0419, \h041A, \h041B, \h041C, \h041D, \h041E, \h041F,
       \h0420, \h0421, \h0422, \h0423, \h0424, \h0425, \h0426, \h0427,
       \h0428, \h0429, \h042A, \h042B, \h042C, \h042D, \h042E, \h042F,
       \h2020, \h00B0, \h0490, \h00A3, \h00A7, \h2022, \h00B6, \h0406,
       \h00AE, \h00A9, \h2122, \h0402, \h0452, \h2260, \h0403, \h0453,
       \h221E, \h00B1, \h2264, \h2265, \h00A5, \h0491, \h0408, \h0404,
       \h0407, \h0409, \h040A, \h040C, \h0459, \h045A, \h045C, \h045B,
       \h045F, \h00A4, \h00AB, \h00BB, \h2591, \h2592, \h2593, \h2502,
       \h2524, \h00A0, \h044E, \h0430, \h0431, \h0446, \h0434, \h0435,
       \h0444, \h0433, \h0445, \h0438, \h0439, \h043A, \h043B, \h043C,
       \h043D, \h043E, \h043F, \h044F, \h0440, \h0441, \h0442, \h0443,
       \h0436, \h0432, \h044C, \h044B, \h0437, \h0448, \h044D, \h0449,
       \h0447, \h044A, \h042E, \h0410, \h0411, \h0426, \h0414, \h0415,
       \h0424, \h0413, \h0425, \h0418, \h0419, \h041A, \h041B, \h041C,
       \h041D, \h041E, \h041F, \h042F, \h0420, \h0421, \h0422, \h0423 >>

(***************************************************************************)
(* The decoders.                                                           *)
(***************************************************************************)
\* enum class SingleByte
SingleByte == {"CP1251", "KOI8R", "ISO8859_5", "MACCYR"}

\* one 16-bit unit at byte index i
Unit16(p, i, be) ==
    IF be THEN BitOr(At(p, i) * 256, At(p, i + 1))
    ELSE BitOr(At(p, i + 1) * 256, At(p, i))

\* a pair combined without the 0x10000 offset
SurrogatePair_NoOffset(u, v) ==
    BitOr((u - \hD800) * 1024, v - \hDC00)

\* cp = 0x10000 + (((u - 0xD800) << 10) | (v - 0xDC00))
SurrogatePair(u, v) ==
    \h10000 + BitOr((u - \hD800) * 1024, v - \hDC00)

\* the for loop of decode_utf16 from byte index i; n is already even
RECURSIVE decode_utf16_from(_, _, _, _)
decode_utf16_from(p, n, be, i) ==
    IF ~(i + 1 < n) THEN << >>
    ELSE
      LET u == Unit16(p, i, be) IN
      IF u >= \hD800 /\ u <= \hDBFF THEN
          IF i + 3 >= n THEN << \hFFFD >>
          ELSE
            LET v == Unit16(p, i + 2, be) IN
            IF v < \hDC00 \/ v > \hDFFF
                \* i += 2; continue; and the loop's own i += 2
                THEN << \hFFFD >> \o decode_utf16_from(p, n, be, i + 4)
            ELSE << SurrogatePair(u, v) >>
                     \o decode_utf16_from(p, n, be, i + 4)
      ELSE IF u >= \hDC00 /\ u <= \hDFFF
          THEN << \hFFFD >> \o decode_utf16_from(p, n, be, i + 2)
      ELSE << u >> \o decode_utf16_from(p, n, be, i + 2)

decode_utf16(p, be) ==
    LET n == IF Len(p) % 2 # 0 THEN Len(p) - 1 ELSE Len(p)
    IN decode_utf16_from(p, n, be, 0)

\* The 32-bit unit at byte index i is Top32 * 2^24 + Low32.  The two parts are
\* kept apart because the model checker's integers are 32-bit signed: the
\* unit exceeds 0x10FFFF exactly when Top32 # 0 or Low32 > 0x10FFFF.
Top32(p, i, be) == IF be THEN At(p, i) ELSE At(p, i + 3)

Low32(p, i, be) ==
    IF be THEN At(p, i + 1) * \h10000 + At(p, i + 2) * 256 + At(p, i + 3)
    ELSE At(p, i + 2) * \h10000 + At(p, i + 1) * 256 + At(p, i)

\* a range test that lets the surrogates through
Replaced32_NoSurrogate(top, cp) ==
    top # 0 \/ cp > \h10FFFF

\* cp > 0x10FFFF || (cp >= 0xD800 && cp <= 0xDFFF), on the two parts of the unit
Replaced32(top, cp) ==
    (top # 0 \/ cp > \h10FFFF) \/ (top = 0 /\ cp >= \hD800 /\ cp <= \hDFFF)

RECURSIVE decode_utf32_from(_, _, _, _)
decode_utf32_from(p, n, be, i) ==
    IF ~(i + 3 < n) THEN << >>
    ELSE
      LET top == Top32(p, i, be)
          cp == Low32(p, i, be)
      IN
      << IF Replaced32(top, cp) THEN \hFFFD ELSE cp >>
          \o decode_utf32_from(p, n, be, i + 4)

decode_utf32(p, be) ==
    LET n == Len(p) - (Len(p) % 4)
    IN decode_utf32_from(p, n, be, 0)

\* the table cell the switch of decode_single_byte reads
TableCell(t, b) ==
    CASE t = "CP1251"    -> CP1251_TABLE[b - \h80 + 1]
      [] t = "KOI8R"     -> KOI8R_TABLE[b - \h80 + 1]
      [] t = "ISO8859_5" -> ISO8859_5_TABLE[b - \h80 + 1]
      [] t = "MACCYR"    -> MACCYR_TABLE[b - \h80 + 1]
      [] OTHER           -> \hFFFD

\* a lookup that hands on the cell as it is
Looked_ZeroKept(t, b) == TableCell(t, b)

\* the switch, then if (cp == 0x0000) cp = 0xFFFD
Looked(t, b) ==
    IF TableCell(t, b) = \h0000 THEN \hFFFD ELSE TableCell(t, b)

RECURSIVE decode_single_byte_from(_, _, _)
decode_single_byte_from(p, t, i) ==
    IF ~(i < Len(p)) THEN << >>
    ELSE
      LET b == At(p, i)
          cp == IF b < \h80 THEN b ELSE Looked(t, b)
      IN << cp >> \o decode_single_byte_from(p, t, i + 1)

decode_single_byte(p, t) == decode_single_byte_from(p, t, 0)

(***************************************************************************)
(* score_u32_text                                                          *)
(*                                                                         *)
(* The source returns the double (good - bad + 1.5 * cyr) / total.  The    *)
(* model keeps the exact value as the fraction num / (2 * den), with       *)
(* num = 2 * good - 2 * bad + 3 * cyr and den = total: the numerator is a  *)
(* multiple of 0.5 far below 2^53, and a correctly rounded division by the *)
(* same total keeps the order of two such numerators for every length a    *)
(* buffer in memory can have, so comparing the fractions compares the      *)
(* doubles.                                                                *)
(***************************************************************************)
\* a loop body without the test for the Cyrillic block
ScoreOf_NoCyrillic(cp) ==
    IF cp = \h0000 THEN [cyr |-> 0, good |-> 0, bad |-> 3]
    ELSE IF cp < \h20 /\ cp # \h09 /\ cp # \h0A /\ cp # \h0D
        THEN [cyr |-> 0, good |-> 0, bad |-> 2]
    ELSE IF (cp >= \h0020 /\ cp <= \h007E) \/ cp = \h00A0 \/ cp = \h2116
        THEN [cyr |-> 0, good |-> 1, bad |-> 0]
    ELSE IF cp = \hFFFD THEN [cyr |-> 0, good |-> 0, bad |-> 2]
    ELSE IF (cp >= \h2000 /\ cp <= \h206F) \/ (cp >= \h20 /\ cp <= \h7E)
        THEN [cyr |-> 0, good |-> 1, bad |-> 0]
    ELSE [cyr |-> 0, good |-> 0, bad |-> 0]

\* what one code point adds to cyr, good and bad (the body of the for loop)
ScoreOf(cp) ==
    IF cp = \h0000 THEN [cyr |-> 0, good |-> 0, bad |-> 3]
    ELSE IF cp < \h20 /\ cp # \h09 /\ cp # \h0A /\ cp # \h0D
        THEN [cyr |-> 0, good |-> 0, bad |-> 2]
    ELSE IF cp >= \h0400 /\ cp <= \h04FF THEN [cyr |-> 1, good |-> 1, bad |-> 0]
    ELSE IF (cp >= \h0020 /\ cp <= \h007E) \/ cp = \h00A0 \/ cp = \h2116
        THEN [cyr |-> 0, good |-> 1, bad |-> 0]
    ELSE IF cp = \hFFFD THEN [cyr |-> 0, good |-> 0, bad |-> 2]
    ELSE IF (cp >= \h2000 /\ cp <= \h206F) \/ (cp >= \h20 /\ cp <= \h7E)
        THEN [cyr |-> 0, good |-> 1, bad |-> 0]
    ELSE [cyr |-> 0, good |-> 0, bad |-> 0]

\* 2 * (good - bad + 1.5 * cyr) summed over u[k..]
RECURSIVE ScoreSum(_, _)
ScoreSum(u, k) ==
    IF k > Len(u) THEN 0
    ELSE LET s == ScoreOf(u[k])
         IN 2 * s.good - 2 * s.bad + 3 * s.cyr + ScoreSum(u, k + 1)

score_u32_text(u) ==
    IF Len(u) = 0 THEN [num |-> 0, den |-> 1]
    ELSE [num |-> ScoreSum(u, 1), den |-> Len(u)]

\* double bestScore = -1e9: below every score, which is at least -3
InitialBestScore == [num |-> -2000000000, den |-> 1]

\* a < b on two scores (the products with -1e9 are not formed)
ScoreLess(a, b) ==
    IF a = InitialBestScore THEN b # InitialBestScore
    ELSE IF b = InitialBestScore THEN FALSE
    ELSE a.num * b.den < b.num * a.den

(***************************************************************************)
(* DetectEncodingFromBuffer                                                *)
(***************************************************************************)
\* struct Cand cands[]
cands ==
    << [name |-> "WINDOWS-1251", t |-> "CP1251"],
       [name |-> "KOI8-R",       t |-> "KOI8R"],
       [name |-> "ISO-8859-5",   t |-> "ISO8859_5"],
       [name |-> "MACCYRILLIC",  t |-> "MACCYR"] >>

\* a loop that lets a later candidate take over on an equal score
RECURSIVE BestCandidate_LastWins(_, _, _, _)
BestCandidate_LastWins(bytes, k, bestScore, bestName) ==
    IF k > Len(cands) THEN bestName
    ELSE
      LET s == score_u32_text(decode_single_byte(bytes, cands[k].t)) IN
      IF ~ScoreLess(s, bestScore)
          THEN BestCandidate_LastWins(bytes, k + 1, s, cands[k].name)
      ELSE BestCandidate_LastWins(bytes, k + 1, bestScore, bestName)

\* for (auto &c : cands) from candidate k, with the best so far
RECURSIVE BestCandidate(_, _, _, _)
BestCandidate(bytes, k, bestScore, bestName) ==
    IF k > Len(cands) THEN bestName
    ELSE
      LET s == score_u32_text(decode_single_byte(bytes, cands[k].t)) IN
      IF ScoreLess(bestScore, s)
          THEN BestCandidate(bytes, k + 1, s, cands[k].name)
      ELSE BestCandidate(bytes, k + 1, bestScore, bestName)

\* a detector that tries the UTF-16 heuristics before the UTF-32 ones
DetectEncodingFromBuffer_Utf16First(bytes) ==
    IF Len(bytes) = 0 THEN "UTF-8"
    ELSE IF detect_bom(bytes) # NoBom THEN detect_bom(bytes).name
    ELSE IF looks_like_utf16_le(bytes) THEN "UTF-16LE"
    ELSE IF looks_like_utf16_be(bytes) THEN "UTF-16BE"
    ELSE IF looks_like_utf32_le(bytes) THEN "UTF-32LE"
    ELSE IF looks_like_utf32_be(bytes) THEN "UTF-32BE"
    ELSE IF is_valid_utf8(bytes) THEN "UTF-8"
    ELSE BestCandidate(bytes, 1, InitialBestScore, "WINDOWS-1251")

DetectEncodingFromBuffer(bytes) ==
    IF Len(bytes) = 0 THEN "UTF-8"
    ELSE IF detect_bom(bytes) # NoBom THEN detect_bom(bytes).name
    ELSE IF looks_like_utf32_le(bytes) THEN "UTF-32LE"
    ELSE IF looks_like_utf32_be(bytes) THEN "UTF-32BE"
    ELSE IF looks_like_utf16_le(bytes) THEN "UTF-16LE"
    ELSE IF looks_like_utf16_be(bytes) THEN "UTF-16BE"
    ELSE IF is_valid_utf8(bytes) THEN "UTF-8"
    ELSE BestCandidate(bytes, 1, InitialBestScore, "WINDOWS-1251")

(***************************************************************************)
(* ConvertBufferToUtf8                                                     *)
(*                                                                         *)
(* The result carries the returned string (out), *detected_out (encname)   *)
(* and two locals the claims speak about: off, the content offset, and     *)
(* fallback, whether the branch of lines 364-367 was taken.                *)
(***************************************************************************)
\* the if / else-if chain on encname over the span p (lines 363-390)
DecodeAs(encname, p) ==
    IF encname = "UTF-8" THEN
        IF ~is_valid_utf8(p)
            THEN [out |-> u32_to_utf8(decode_single_byte(p, "CP1251")),
                  encname |-> "WINDOWS-1251", fallback |-> TRUE]
        ELSE [out |-> p, encname |-> encname, fallback |-> FALSE]
    ELSE IF encname = "UTF-16LE" THEN
        [out |-> u32_to_utf8(decode_utf16(p, FALSE)), encname |-> encname, fallback |-> FALSE]
    ELSE IF encname = "UTF-16BE" THEN
        [out |-> u32_to_utf8(decode_utf16(p, TRUE)), encname |-> encname, fallback |-> FALSE]
    ELSE IF encname = "UTF-32LE" THEN
        [out |-> u32_to_utf8(decode_utf32(p, FALSE)), encname |-> encname, fallback |-> FALSE]
    ELSE IF encname = "UTF-32BE" THEN
        [out |-> u32_to_utf8(decode_utf32(p, TRUE)), encname |-> encname, fallback |-> FALSE]
    ELSE IF encname = "WINDOWS-1251" THEN
        [out |-> u32_to_utf8(decode_single_byte(p, "CP1251")), encname |-> encname, fallback |-> FALSE]
    ELSE IF encname = "KOI8-R" THEN
        [out |-> u32_to_utf8(decode_single_byte(p, "KOI8R")), encname |-> encname, fallback |-> FALSE]
    ELSE IF encname = "ISO-8859-5" THEN
        [out |-> u32_to_utf8(decode_single_byte(p, "ISO8859_5")), encname |-> encname, fallback |-> FALSE]
    ELSE IF encname = "MACCYRILLIC" THEN
        [out |-> u32_to_utf8(decode_single_byte(p, "MACCYR")), encname |-> encname, fallback |-> FALSE]
    ELSE
        [out |-> u32_to_utf8(decode_single_byte(p, "CP1251")),
         encname |-> "WINDOWS-1251", fallback |-> FALSE]

ConvertBufferToUtf8(bytes) ==
    IF Len(bytes) = 0
        THEN [out |-> << >>, encname |-> "UTF-8", off |-> 0, fallback |-> FALSE]
    ELSE
      LET bom == detect_bom(bytes)
          encname == IF bom # NoBom THEN bom.name ELSE DetectEncodingFromBuffer(bytes)
          off == IF bom # NoBom THEN bom.size ELSE 0
          r == DecodeAs(encname, Span(bytes, off))
      IN [out |-> r.out, encname |-> r.encname, off |-> off, fallback |-> r.fallback]

(***************************************************************************)
(* The state: the caller's buffer and what each call returned.             *)
(***************************************************************************)
VARIABLES
    input,      \* the byte buffer handed to the library
    be,         \* the endianness flag handed to a decoder
    scalar,     \* the scalar a round trip starts from (0 when there is none)
    pc,         \* where the caller is: "input", then one state per call made
    detected,   \* what DetectEncodingFromBuffer returned
    conv,       \* what ConvertBufferToUtf8 returned
    valid,      \* what is_valid_utf8 returned
    u32,        \* what a decoder returned
    disk,       \* the two files of ConvertFileToUtf8Inplace: path and path.utf8.tmp
    ipc,        \* where ConvertFileToUtf8Inplace is
    utf8,       \* its local string utf8
    hist,       \* what the run did so far (calls made and how they ended)
    table,      \* the SingleByte value handed to decode_single_byte ("" when none)
    text,       \* the code points handed to score_u32_text
    suffix,     \* the code points appended to text for its second scoring
    scores      \* what score_u32_text returned, one entry per call

vars ==
    << input, be, scalar, pc, detected, conv, valid, u32, disk, ipc, utf8, hist,
       table, text, suffix, scores >>

\* a file that does not exist
NoFile == << -1 >>

NoConv == [out |-> << >>, encname |-> "", off |-> 0, fallback |-> FALSE]

NoHist == [orig |-> NoFile, renames |-> 0, renameFails |-> 0,
           removeOrig |-> "none", removeTmp |-> "none", thrown |-> "none"]

\* all byte sequences over alphabet A of length at most n
SeqsUpTo(A, n) == UNION {[1..k -> A] : k \in 0..n}

\* the five BOM forms
BomPrefixes ==
    { << \hEF, \hBB, \hBF >>, << \hFF, \hFE, \h00, \h00 >>, << \h00, \h00, \hFE, \hFF >>,
      << \hFF, \hFE >>, << \hFE, \hFF >> }

\* the buffers of src/test_utf8_converter_api.cpp
HelloMir ==
    << \h48, \h65, \h6C, \h6C, \h6F, \h2C, \h20, \hD0, \hBC, \hD0, \hB8, \hD1, \h80, \h21, \h0A >>

TestBomUtf8 == << \hEF, \hBB, \hBF >> \o HelloMir

TestUtf16le == << \hFF, \hFE, \h41, \h00, \h42, \h00 >>

TestCp1251 == << \hCF, \hF0, \hE8, \hE2, \hE5, \hF2 >>

\* buffers with and without a BOM prefix
BomInputs ==
    { pre \o tail : pre \in BomPrefixes \cup {<< >>},
                    tail \in SeqsUpTo({\h00, \h41, \hD0, \hBC, \hFF}, MaxTail) }
    \cup {TestBomUtf8, TestUtf16le}

\* NUL, ASCII, a two-byte lead, a three-byte lead and a continuation byte
Utf8Inputs == SeqsUpTo({\h00, \h41, \hD0, \hBC, \hE2}, MaxUtf8Len) \cup {HelloMir}

\* four-byte blocks: ASCII as UTF-32LE, UTF-32BE, UTF-16LE, UTF-16BE, and plain
WideBlocks ==
    { << \h41, \h00, \h00, \h00 >>, << \h00, \h00, \h00, \h41 >>,
      << \h41, \h00, \h42, \h00 >>, << \h00, \h41, \h00, \h42 >>,
      << \h41, \h42, \h43, \h44 >> }

\* the concatenations of at most n blocks
RECURSIVE BlockSeqs(_)
BlockSeqs(n) ==
    IF n = 0 THEN {<< >>}
    ELSE LET shorter == BlockSeqs(n - 1)
         IN shorter \cup {s \o blk : s \in shorter, blk \in WideBlocks}

\* zero bytes among ASCII and Latin-1 bytes, and longer runs of blocks
WideInputs == SeqsUpTo({\h00, \h41, \hE9}, MaxWideLen) \cup BlockSeqs(MaxWideBlocks)

\* a control byte, ASCII, and bytes the four code pages disagree on
SingleBytes ==
    {\h01, \h41, \h80, \h82, \h88, \h98, \hA0, \hA3, \hA4, \hB3, \hB9, \hBF, \hC0, \hCF,
     \hF0, \hFF}

SingleInputs == SeqsUpTo(SingleBytes, MaxSingleLen) \cup {TestCp1251}

\* no call of the library has returned yet
NoCalls ==
    /\ pc = "input"
    /\ detected = ""
    /\ conv = NoConv
    /\ valid = FALSE
    /\ u32 = << >>
    /\ scores = << >>

\* nothing is held for decode_single_byte or score_u32_text
NoText ==
    /\ table = ""
    /\ text = << >>
    /\ suffix = << >>

\* ConvertFileToUtf8Inplace is not running
NoInplace ==
    /\ disk = [p |-> NoFile, tmp |-> NoFile]
    /\ ipc = "idle"
    /\ utf8 = << >>
    /\ hist = NoHist

InitCaller(inputs) ==
    /\ input \in inputs
    /\ be = FALSE
    /\ scalar = 0
    /\ NoCalls
    /\ NoText
    /\ NoInplace

(***************************************************************************)
(* The caller of the test: DetectEncoding, then ConvertBufferToUtf8, on    *)
(* the same bytes.                                                         *)
(***************************************************************************)
DetectEncoding ==
    /\ pc = "input"
    /\ detected' = DetectEncodingFromBuffer(input)
    /\ pc' = "detected"
    /\ UNCHANGED << input, be, scalar, table, text, suffix, scores,
                 conv, valid, u32, disk, ipc, utf8, hist >>

ConvertBuffer ==
    /\ pc = "detected"
    /\ conv' = ConvertBufferToUtf8(input)
    /\ pc' = "converted"
    /\ UNCHANGED << input, be, scalar, table, text, suffix, scores,
                 detected, valid, u32, disk, ipc, utf8, hist >>

NextBuffer == DetectEncoding \/ ConvertBuffer

SpecBom == InitCaller(BomInputs) /\ [][NextBuffer]_vars

SpecUtf8 == InitCaller(Utf8Inputs) /\ [][NextBuffer]_vars

SpecWide == InitCaller(WideInputs) /\ [][NextBuffer]_vars

SpecSingle == InitCaller(SingleInputs) /\ [][NextBuffer]_vars

(***************************************************************************)
(* A caller of is_valid_utf8 on a span.                                    *)
(***************************************************************************)
\* bytes at the edges of the classes the validator tells apart
ValidatorBytes ==
    {\h41, \h7F, \h80, \h8F, \h90, \h9F, \hA0, \hBF, \hC1, \hC2, \hE0, \hED, \hEF,
     \hF0, \hF4, \hF5}

\* The spans validated: every span over ValidatorBytes; every single byte; and
\* every pair of bytes, alone and followed by continuation bytes.
InitValidator ==
    /\ \/ \E k \in 0..MaxSpanLen : input \in [1..k -> ValidatorBytes]
       \/ input \in [1..1 -> 0..255]
       \/ \E k \in 0..(MaxSpanLen - 2) :
             \E pair \in [1..2 -> 0..255], tail \in [1..k -> {\h80, \hBF}] :
                input = pair \o tail
    /\ be = FALSE
    /\ scalar = 0
    /\ NoCalls
    /\ NoText
    /\ NoInplace

Validate ==
    /\ pc = "input"
    /\ valid' = is_valid_utf8(input)
    /\ pc' = "validated"
    /\ UNCHANGED << input, be, scalar, table, text, suffix, scores,
                 detected, conv, u32, disk, ipc, utf8, hist >>

NextValidator == Validate

SpecValidator == InitValidator /\ [][NextValidator]_vars

(***************************************************************************)
(* A caller of decode_utf16 on the bytes of a sequence of 16-bit units.    *)
(***************************************************************************)
\* units at the edges of the surrogate ranges, and ordinary ones
SampleUnits == {\h0041, \hD7FF, \hD800, \hDBFF, \hDC00, \hDFFF, \hE000, \hFFFD}

\* the two bytes of a unit in the given byte order
UnitBytes(u, bigEndian) ==
    IF bigEndian THEN << u \div 256, u % 256 >> ELSE << u % 256, u \div 256 >>

\* the bytes of a sequence of units
RECURSIVE UnitsBytes(_, _)
UnitsBytes(us, bigEndian) ==
    IF us = << >> THEN << >>
    ELSE UnitBytes(Head(us), bigEndian) \o UnitsBytes(Tail(us), bigEndian)

\* a scalar above 0xFFFF as a surrogate pair
EncodeUtf16(cp, bigEndian) ==
    LET v == cp - \h10000
    IN UnitsBytes(<< \hD800 + (v \div 1024), \hDC00 + (v % 1024) >>, bigEndian)

InitDecoder ==
    /\ be \in BOOLEAN
    /\ scalar = 0
    /\ \E us \in SeqsUpTo(SampleUnits, MaxUnits) : input = UnitsBytes(us, be)
    /\ NoCalls
    /\ NoText
    /\ NoInplace

\* every scalar of 0x10000..0x10FFFF, as a surrogate pair in either byte order
InitPair ==
    /\ be \in BOOLEAN
    /\ scalar \in \h10000..\h10FFFF
    /\ input = EncodeUtf16(scalar, be)
    /\ NoCalls
    /\ NoText
    /\ NoInplace

DecodeUtf16 ==
    /\ pc = "input"
    /\ u32' = decode_utf16(input, be)
    /\ pc' = "decoded"
    /\ UNCHANGED << input, be, scalar, table, text, suffix, scores,
                 detected, conv, valid, disk, ipc, utf8, hist >>

NextUtf16 == DecodeUtf16

SpecUtf16 == InitDecoder /\ [][NextUtf16]_vars

SpecPair == InitPair /\ [][NextUtf16]_vars

(***************************************************************************)
(* A caller of the three decoders on the same bytes: decode_utf16 and      *)
(* decode_utf32 in the byte order be, decode_single_byte with each table.  *)
(***************************************************************************)
\* bytes that build surrogate units and scalars at and above 0x10FFFF, ASCII,
\* and the byte CP1251 leaves undefined
DecoderBytes == {\h00, \h10, \h11, \h41, \h98, \hD8, \hDC}

\* every buffer over DecoderBytes, every single byte and every pair of bytes
InitDecoders ==
    /\ \/ \E k \in 0..MaxDecodeLen : input \in [1..k -> DecoderBytes]
       \/ input \in [1..1 -> 0..255]
       \/ input \in [1..2 -> 0..255]
    /\ be \in BOOLEAN
    /\ scalar = 0
    /\ NoCalls
    /\ NoText
    /\ NoInplace

DecodeUtf32 ==
    /\ pc = "input"
    /\ u32' = decode_utf32(input, be)
    /\ pc' = "decoded32"
    /\ UNCHANGED << input, be, scalar, table, text, suffix, scores,
                    detected, conv, valid, disk, ipc, utf8, hist >>

DecodeSingleByte ==
    /\ pc = "input"
    /\ \E t \in SingleByte :
          /\ table' = t
          /\ u32' = decode_single_byte(input, t)
    /\ pc' = "decoded8"
    /\ UNCHANGED << input, be, scalar, text, suffix, scores,
                    detected, conv, valid, disk, ipc, utf8, hist >>

NextDecoders == DecodeUtf16 \/ DecodeUtf32 \/ DecodeSingleByte

SpecDecoders == InitDecoders /\ [][NextDecoders]_vars

(***************************************************************************)
(* A caller of score_u32_text on a code-point sequence, and then on the    *)
(* same sequence with Cyrillic text appended.                              *)
(***************************************************************************)
\* code points at the edges of the classes the scorer tells apart
ScoreSamples ==
    {\h0000, \h0001, \h0009, \h001F, \h0020, \h0041, \h007E, \h007F, \h00A0,
     \h03FF, \h0400, \h04FF, \h0500, \h2000, \h206F, \h2070, \h2116, \hFFFD,
     \h10FFFF}

\* the two ends of the Cyrillic block
CyrillicSamples == {\h0400, \h04FF}

InitScore ==
    /\ \E k \in 0..MaxTextLen : text \in [1..k -> ScoreSamples]
    /\ \E k \in 1..MaxSuffixLen : suffix \in [1..k -> CyrillicSamples]
    /\ table = ""
    /\ input = << >>
    /\ be = FALSE
    /\ scalar = 0
    /\ NoCalls
    /\ NoInplace

ScoreText ==
    /\ pc = "input"
    /\ scores' = << score_u32_text(text) >>
    /\ pc' = "scored"
    /\ UNCHANGED << input, be, scalar, table, text, suffix,
                    detected, conv, valid, u32, disk, ipc, utf8, hist >>

ScoreAppended ==
    /\ pc = "scored"
    /\ scores' = Append(scores, score_u32_text(text \o suffix))
    /\ pc' = "rescored"
    /\ UNCHANGED << input, be, scalar, table, text, suffix,
                    detected, conv, valid, u32, disk, ipc, utf8, hist >>

NextScore == ScoreText \/ ScoreAppended

SpecScore == InitScore /\ [][NextScore]_vars

(***************************************************************************)
(* ConvertFileToUtf8Inplace, one action per call it makes on the file      *)
(* system.  disk.p is the file at path, disk.tmp the file at               *)
(* path + ".utf8.tmp"; each call on the file system either succeeds or     *)
(* fails, and a call that fails leaves the files as they were.  hist       *)
(* records the calls made: orig is the content of path when the call       *)
(* began, renames and renameFails count fs::rename, removeOrig and         *)
(* removeTmp say how fs::remove ended, thrown names the exception.         *)
(***************************************************************************)
\* the file contents tried, and no file at all
FileInputs == SeqsUpTo({\h41, \hCF, \hFF}, MaxFileLen) \cup {TestCp1251, NoFile}

\* a file left at path.utf8.tmp by something else
StaleTmp == << \h58 >>

InitInplace ==
    /\ disk \in [p : FileInputs, tmp : {NoFile, StaleTmp}]
    /\ ipc = "start"
    /\ utf8 = << >>
    /\ hist = [NoHist EXCEPT !.orig = disk.p]
    /\ input = << >>
    /\ be = FALSE
    /\ scalar = 0
    /\ pc = "inplace"
    /\ detected = ""
    /\ conv = NoConv
    /\ valid = FALSE
    /\ u32 = << >>
    /\ scores = << >>
    /\ NoText

\* the proper prefixes of a string: what a failed write may have left
ProperPrefixes(str) == {SubSeq(str, 1, k) : k \in 0..(Len(str) - 1)} \cup {<< >>}

\* 1) std::string utf8 = ConvertFileToUtf8(path, detected_out)
IpConvert ==
    /\ ipc = "start"
    /\ \/ /\ disk.p # NoFile
          /\ conv' = ConvertBufferToUtf8(disk.p)
          /\ utf8' = conv'.out
          /\ ipc' = "converted"
          /\ UNCHANGED hist
       \/ \* read_file_bytes: Cannot open file
          /\ ipc' = "thrown"
          /\ hist' = [hist EXCEPT !.thrown = "read"]
          /\ UNCHANGED << conv, utf8 >>
    /\ UNCHANGED << input, be, scalar, table, text, suffix, scores,
                 pc, detected, valid, u32, disk >>

\* 2) std::ofstream out(tmp, binary | trunc)
IpOpenTmp ==
    /\ ipc = "converted"
    /\ \/ /\ disk' = [disk EXCEPT !.tmp = << >>]
          /\ ipc' = "opened"
          /\ UNCHANGED hist
       \/ \* Cannot open temp file
          /\ ipc' = "thrown"
          /\ hist' = [hist EXCEPT !.thrown = "open"]
          /\ UNCHANGED disk
    /\ UNCHANGED << input, be, scalar, table, text, suffix, scores,
                 pc, detected, conv, valid, u32, utf8 >>

\* a write whose failure goes unnoticed
IpWriteTmp_Unchecked ==
    /\ ipc = "opened"
    /\ \/ disk' = [disk EXCEPT !.tmp = utf8]
       \/ \E part \in ProperPrefixes(utf8) : disk' = [disk EXCEPT !.tmp = part]
    /\ ipc' = "written"
    /\ UNCHANGED << input, be, scalar, table, text, suffix, scores,
                 pc, detected, conv, valid, u32, utf8, hist >>

\* out.write(...); out.flush(); if (!out) throw; and the stream's close
IpWriteTmp ==
    /\ ipc = "opened"
    /\ \/ /\ disk' = [disk EXCEPT !.tmp = utf8]
          /\ ipc' = "written"
          /\ UNCHANGED hist
       \/ \* Write failed for temp file
          /\ \E part \in ProperPrefixes(utf8) : disk' = [disk EXCEPT !.tmp = part]
          /\ ipc' = "thrown"
          /\ hist' = [hist EXCEPT !.thrown = "write"]
    /\ UNCHANGED << input, be, scalar, table, text, suffix, scores,
                 pc, detected, conv, valid, u32, utf8 >>

\* a first rename whose failure goes straight to the cleanup
IpRename1_NoRetry ==
    /\ ipc = "written"
    /\ \/ /\ disk' = [p |-> disk.tmp, tmp |-> NoFile]
          /\ ipc' = "done"
          /\ hist' = [hist EXCEPT !.renames = @ + 1]
       \/ /\ ipc' = "cleanup"
          /\ hist' = [hist EXCEPT !.renames = @ + 1, !.renameFails = @ + 1]
          /\ UNCHANGED disk
    /\ UNCHANGED << input, be, scalar, table, text, suffix, scores,
                 pc, detected, conv, valid, u32, utf8 >>

\* 3) fs::rename(tmp, p, ec)
IpRename1 ==
    /\ ipc = "written"
    /\ \/ /\ disk' = [p |-> disk.tmp, tmp |-> NoFile]
          /\ ipc' = "done"
          /\ hist' = [hist EXCEPT !.renames = @ + 1]
       \/ \* if (ec)
          /\ ipc' = "rename_failed"
          /\ hist' = [hist EXCEPT !.renames = @ + 1, !.renameFails = @ + 1]
          /\ UNCHANGED disk
    /\ UNCHANGED << input, be, scalar, table, text, suffix, scores,
                 pc, detected, conv, valid, u32, utf8 >>

\* fs::remove(p, ec): its error is overwritten by the rename that follows
IpRemoveOrig ==
    /\ ipc = "rename_failed"
    /\ \/ /\ disk' = [disk EXCEPT !.p = NoFile]
          /\ hist' = [hist EXCEPT !.removeOrig = "ok"]
       \/ /\ hist' = [hist EXCEPT !.removeOrig = "failed"]
          /\ UNCHANGED disk
    /\ ipc' = "retry"
    /\ UNCHANGED << input, be, scalar, table, text, suffix, scores,
                 pc, detected, conv, valid, u32, utf8 >>

\* fs::rename(tmp, p, ec), the second time
IpRename2 ==
    /\ ipc = "retry"
    /\ \/ /\ disk' = [p |-> disk.tmp, tmp |-> NoFile]
          /\ ipc' = "done"
          /\ hist' = [hist EXCEPT !.renames = @ + 1]
       \/ \* if (ec)
          /\ ipc' = "cleanup"
          /\ hist' = [hist EXCEPT !.renames = @ + 1, !.renameFails = @ + 1]
          /\ UNCHANGED disk
    /\ UNCHANGED << input, be, scalar, table, text, suffix, scores,
                 pc, detected, conv, valid, u32, utf8 >>

\* std::error_code ec2; fs::remove(tmp, ec2); throw
IpRemoveTmp ==
    /\ ipc = "cleanup"
    /\ \/ /\ disk' = [disk EXCEPT !.tmp = NoFile]
          /\ hist' = [hist EXCEPT !.removeTmp = "ok", !.thrown = "replace"]
       \/ /\ hist' = [hist EXCEPT !.removeTmp = "failed", !.thrown = "replace"]
          /\ UNCHANGED disk
    /\ ipc' = "thrown"
    /\ UNCHANGED << input, be, scalar, table, text, suffix, scores,
                 pc, detected, conv, valid, u32, utf8 >>

NextInplace ==
    \/ IpConvert
    \/ IpOpenTmp
    \/ IpWriteTmp
    \/ IpRename1
    \/ IpRemoveOrig
    \/ IpRename2
    \/ IpRemoveTmp

SpecInplace == InitInplace /\ [][NextInplace]_vars

(***************************************************************************)
(* What the claims measure the code against.                               *)
(***************************************************************************)
IsPrefix(pre, b) == Len(pre) <= Len(b) /\ SubSeq(b, 1, Len(pre)) = pre

\* the BOM a buffer begins with, the four-byte forms first
ExpectedBom(b) ==
    IF IsPrefix(<< \hFF, \hFE, \h00, \h00 >>, b) THEN [name |-> "UTF-32LE", size |-> 4]
    ELSE IF IsPrefix(<< \h00, \h00, \hFE, \hFF >>, b) THEN [name |-> "UTF-32BE", size |-> 4]
    ELSE IF IsPrefix(<< \hEF, \hBB, \hBF >>, b) THEN [name |-> "UTF-8", size |-> 3]
    ELSE IF IsPrefix(<< \hFF, \hFE >>, b) THEN [name |-> "UTF-16LE", size |-> 2]
    ELSE IF IsPrefix(<< \hFE, \hFF >>, b) THEN [name |-> "UTF-16BE", size |-> 2]
    ELSE [name |-> "", size |-> 0]

BeginsWithBom(b) == ExpectedBom(b).name # ""

\* the well-formed byte sequences of UTF-8, each a sequence of byte ranges
WellFormedRows ==
    { << <<\h00, \h7F>> >>,
      << <<\hC2, \hDF>>, <<\h80, \hBF>> >>,
      << <<\hE0, \hE0>>, <<\hA0, \hBF>>, <<\h80, \hBF>> >>,
      << <<\hE1, \hEC>>, <<\h80, \hBF>>, <<\h80, \hBF>> >>,
      << <<\hED, \hED>>, <<\h80, \h9F>>, <<\h80, \hBF>> >>,
      << <<\hEE, \hEF>>, <<\h80, \hBF>>, <<\h80, \hBF>> >>,
      << <<\hF0, \hF0>>, <<\h90, \hBF>>, <<\h80, \hBF>>, <<\h80, \hBF>> >>,
      << <<\hF1, \hF3>>, <<\h80, \hBF>>, <<\h80, \hBF>>, <<\h80, \hBF>> >>,
      << <<\hF4, \hF4>>, <<\h80, \h8F>>, <<\h80, \hBF>>, <<\h80, \hBF>> >> }

\* s[k..] is a concatenation of well-formed sequences (k counts from 1)
RECURSIVE WellFormedFrom(_, _)
WellFormedFrom(s, k) ==
    IF k > Len(s) THEN TRUE
    ELSE \E row \in WellFormedRows :
            /\ k + Len(row) - 1 <= Len(s)
            /\ \A j \in 1..Len(row) :
                  s[k + j - 1] >= row[j][1] /\ s[k + j - 1] <= row[j][2]
            /\ WellFormedFrom(s, k + Len(row))

WellFormedUtf8(s) == WellFormedFrom(s, 1)

\* the complete 4-byte units whose three bytes from offset d are zero
ZeroUnits32(b, d) ==
    Cardinality({k \in 0..(Len(b) \div 4 - 1) :
                    b[4 * k + d + 1] = 0 /\ b[4 * k + d + 2] = 0 /\ b[4 * k + d + 3] = 0})

\* the complete 2-byte units whose byte at offset d is zero
ZeroBytes16(b, d) ==
    Cardinality({k \in 0..(Len(b) \div 2 - 1) : b[2 * k + d + 1] = 0})

Matches32LE(b) == Len(b) >= 8 /\ 16 * ZeroUnits32(b, 1) > Len(b)

Matches32BE(b) == Len(b) >= 8 /\ 16 * ZeroUnits32(b, 0) > Len(b)

Matches16LE(b) ==
    /\ Len(b) >= 6
    /\ ZeroBytes16(b, 1) > 3 * ZeroBytes16(b, 0)
    /\ 8 * ZeroBytes16(b, 1) > Len(b)

Matches16BE(b) ==
    /\ Len(b) >= 6
    /\ ZeroBytes16(b, 0) > 3 * ZeroBytes16(b, 1)
    /\ 8 * ZeroBytes16(b, 0) > Len(b)

\* the first wide encoding whose heuristic matches, "" when none does
WideChoice(b) ==
    IF Matches32LE(b) THEN "UTF-32LE"
    ELSE IF Matches32BE(b) THEN "UTF-32BE"
    ELSE IF Matches16LE(b) THEN "UTF-16LE"
    ELSE IF Matches16BE(b) THEN "UTF-16BE"
    ELSE ""

WideNames == {"UTF-32LE", "UTF-32BE", "UTF-16LE", "UTF-16BE"}

\* the score of the buffer decoded as candidate k
CandidateScore(b, k) == score_u32_text(decode_single_byte(b, cands[k].t))

\* candidate k has the highest score and no candidate listed before it has it
FirstBest(b, k) ==
    /\ \A j \in 1..Len(cands) : ~ScoreLess(CandidateScore(b, k), CandidateScore(b, j))
    /\ \A j \in 1..(k - 1) : ScoreLess(CandidateScore(b, j), CandidateScore(b, k))

Called == pc \in {"detected", "converted"}

(***************************************************************************)
(* C1: a buffer that begins with one of the five BOM forms is reported     *)
(* under that BOM's encoding name, its content offset is the BOM's length  *)
(* (the four-byte forms taking precedence over the two-byte ones), and the *)
(* output is the conversion of the content after the BOM alone.            *)
(***************************************************************************)
C1_BomNameAndOffset ==
    (pc = "converted" /\ BeginsWithBom(input)) =>
        /\ detected = ExpectedBom(input).name
        /\ conv.off = ExpectedBom(input).size
        /\ conv.out = DecodeAs(ExpectedBom(input).name,
                               Span(input, ExpectedBom(input).size)).out

(***************************************************************************)
(* C2 as stated: for every non-empty valid UTF-8 buffer without a BOM,     *)
(* detect returns UTF-8 and convert returns UTF-8 and the input bytes.     *)
(***************************************************************************)
C2_ValidUtf8IsIdentity ==
    (pc = "converted" /\ input # << >> /\ WellFormedUtf8(input) /\ ~BeginsWithBom(input)) =>
        /\ detected = "UTF-8"
        /\ conv.encname = "UTF-8"
        /\ conv.out = input

(***************************************************************************)
(* C2 amended: for every non-empty valid UTF-8 buffer without a BOM that   *)
(* matches none of the four wide-encoding heuristics, detect returns UTF-8 *)
(* and convert returns UTF-8 and the input bytes.                          *)
(***************************************************************************)
C2_ValidUtf8NoWideIsIdentity ==
    (pc = "converted" /\ input # << >> /\ WellFormedUtf8(input) /\ ~BeginsWithBom(input)
        /\ WideChoice(input) = "") =>
        /\ detected = "UTF-8"
        /\ conv.encname = "UTF-8"
        /\ conv.out = input

\* a converted valid buffer that holds a two-byte character and a NUL
C2_Witness ==
    /\ pc = "converted"
    /\ WellFormedUtf8(input) /\ ~BeginsWithBom(input) /\ WideChoice(input) = ""
    /\ \E i \in 1..Len(input) : input[i] = \hD0
    /\ \E i \in 1..Len(input) : input[i] = \h00
    /\ conv.out = input

(***************************************************************************)
(* C3: for a BOM-less buffer that matches no wide heuristic and is not     *)
(* valid UTF-8, detect returns the single-byte candidate with the highest  *)
(* score, the first listed among those that share it.                      *)
(***************************************************************************)
C3_FirstBestCandidate ==
    (Called /\ input # << >> /\ ~BeginsWithBom(input) /\ WideChoice(input) = ""
        /\ ~WellFormedUtf8(input)) =>
        \E k \in 1..Len(cands) : FirstBest(input, k) /\ detected = cands[k].name

\* the test's buffer: WINDOWS-1251 and KOI8-R share the highest score
C3_Witness ==
    /\ pc = "detected"
    /\ input = TestCp1251
    /\ ~WellFormedUtf8(input) /\ WideChoice(input) = ""
    /\ ~ScoreLess(CandidateScore(input, 1), CandidateScore(input, 2))
    /\ ~ScoreLess(CandidateScore(input, 2), CandidateScore(input, 1))
    /\ detected = "WINDOWS-1251"

(***************************************************************************)
(* C6: when a buffer begins with a BOM, convert reports the BOM's encoding *)
(* as the detected name, and the WINDOWS-1251 fallback of the UTF-8 branch *)
(* is taken only for BOM-less buffers for which detect chose UTF-8.        *)
(***************************************************************************)
C6_BomNameIsReported ==
    pc = "converted" =>
        /\ detect_bom(input) # NoBom => conv.encname = detect_bom(input).name
        /\ conv.fallback => (detect_bom(input) = NoBom /\ detected = "UTF-8")

(***************************************************************************)
(* C9: for a non-empty BOM-less buffer detect returns the first of         *)
(* UTF-32LE, UTF-32BE, UTF-16LE, UTF-16BE whose heuristic matches (UTF-32: *)
(* length at least 8 and more than length/16 units with three zero bytes;  *)
(* UTF-16: length at least 6 and the zero count of one side above 3 times  *)
(* the other's and above length/8), and returns none of the four when no   *)
(* heuristic matches.                                                      *)
(***************************************************************************)
C9_FirstWideMatch ==
    (Called /\ input # << >> /\ ~BeginsWithBom(input)) =>
        IF WideChoice(input) # "" THEN detected = WideChoice(input)
        ELSE detected \notin WideNames

\* a buffer that both the UTF-32LE and the UTF-16LE heuristic match
C9_Witness ==
    /\ pc = "detected"
    /\ input # << >> /\ ~BeginsWithBom(input)
    /\ Matches32LE(input) /\ Matches16LE(input)
    /\ detected = "UTF-32LE"

IsHigh(u) == u >= \hD800 /\ u <= \hDBFF

IsLow(u) == u >= \hDC00 /\ u <= \hDFFF

\* the units of a byte sequence (a trailing odd byte is dropped)
UnitsOf(b, bigEndian) ==
    [k \in 1..(Len(b) \div 2) |->
        IF bigEndian THEN b[2 * k - 1] * 256 + b[2 * k] ELSE b[2 * k] * 256 + b[2 * k - 1]]

\* unit by unit: what the claim says units us[k..] decode to
RECURSIVE DecodedUnits(_, _)
DecodedUnits(us, k) ==
    IF k > Len(us) THEN << >>
    ELSE IF IsHigh(us[k]) /\ k < Len(us) /\ IsLow(us[k + 1])
        THEN << \h10000 + (us[k] - \hD800) * 1024 + (us[k + 1] - \hDC00) >>
                 \o DecodedUnits(us, k + 2)
    ELSE IF IsHigh(us[k]) \/ IsLow(us[k]) THEN << \hFFFD >> \o DecodedUnits(us, k + 1)
    ELSE << us[k] >> \o DecodedUnits(us, k + 1)

(***************************************************************************)
(* C7 as stated: the UTF-16 decoder emits one U+FFFD for each malformed    *)
(* unit (a high surrogate not followed by a low one, a low surrogate not   *)
(* preceded by a high one), the combined scalar for each pair, and every   *)
(* other unit unchanged, the unit after an unmatched high surrogate too.   *)
(***************************************************************************)
C7_OneReplacementPerMalformedUnit ==
    pc = "decoded" => u32 = DecodedUnits(UnitsOf(input, be), 1)

\* the bytes the sequence led by c must have, 0 when c cannot lead
SequenceLength(c) ==
    IF c <= \h7F THEN 1
    ELSE IF c >= \hC2 /\ c <= \hDF THEN 2
    ELSE IF c >= \hE0 /\ c <= \hEF THEN 3
    ELSE IF c >= \hF0 /\ c <= \hF4 THEN 4
    ELSE 0

\* the claim's reasons to reject, read on the first sequence of the span
FirstSequenceRejected(s) ==
    LET c == s[1]
        need == SequenceLength(c)
    IN \/ need = 0
       \/ Len(s) < need
       \/ \E j \in 2..need : s[j] < \h80 \/ s[j] > \hBF
       \/ c = \hE0 /\ s[2] < \hA0
       \/ c = \hED /\ s[2] >= \hA0
       \/ c = \hF0 /\ s[2] < \h90
       \/ c = \hF4 /\ s[2] >= \h90

(***************************************************************************)
(* C8: the validator accepts a span exactly when it is a concatenation of  *)
(* well-formed UTF-8 sequences; a span whose first sequence has a lead     *)
(* byte in 80..C1 or F5..FF, a bad second byte after E0, ED, F0 or F4, a   *)
(* byte that is no continuation, or too few bytes, is rejected.            *)
(***************************************************************************)
C8_ValidIffWellFormed ==
    pc = "validated" =>
        /\ valid <=> WellFormedUtf8(input)
        /\ (input # << >> /\ FirstSequenceRejected(input)) => ~valid

\* an accepted span that ends in the last scalar's four bytes, F4 8F 8F 8F
C8_Witness ==
    /\ pc = "validated"
    /\ valid
    /\ Len(input) = 4
    /\ input[1] = \hF4 /\ input[2] = \h8F

(***************************************************************************)
(* C10: a scalar in 0x10000..0x10FFFF encoded as a UTF-16 surrogate pair,  *)
(* in either byte order, decodes to exactly that one scalar.               *)
(***************************************************************************)
C10_SurrogatePairRoundTrip ==
    pc = "decoded" => u32 = << scalar >>

\* the highest scalar, big-endian, decoded
C10_Witness ==
    /\ pc = "decoded"
    /\ scalar = \h10FFFF
    /\ be
    /\ input = << \hDB, \hFF, \hDF, \hFF >>
    /\ u32 = << \h10FFFF >>

(***************************************************************************)
(* C4: when ConvertFileToUtf8Inplace returns normally, the file at the     *)
(* path holds exactly what convert produces for the file's previous        *)
(* content, and no file is left at path + ".utf8.tmp".                     *)
(***************************************************************************)
C4_ReplacedByConversion ==
    ipc = "done" =>
        /\ hist.orig # NoFile
        /\ disk.p = ConvertBufferToUtf8(hist.orig).out
        /\ disk.tmp = NoFile

\* the test's file, replaced on the retried rename by the UTF-8 bytes of its text
C4_Witness ==
    /\ ipc = "done"
    /\ hist.orig = TestCp1251
    /\ hist.renames = 2
    /\ disk.p = << \hD0, \h9F, \hD1, \h80, \hD0, \hB8, \hD0, \hB2, \hD0, \hB5, \hD1, \h82 >>
    /\ disk.tmp = NoFile

\* the original is removed only after a failed first rename and is untouched
\* until then; the rename is retried once, and only after that failure
C5_RemoveAndRetryOrder ==
    /\ hist.removeOrig # "none" => hist.renameFails >= 1
    /\ (hist.removeOrig = "none" /\ ipc # "done") => disk.p = hist.orig
    /\ hist.renames <= 2
    /\ hist.renames = 2 => hist.renameFails >= 1 /\ hist.removeOrig # "none"
    /\ ipc = "done" => hist.renames = hist.renameFails + 1
    /\ hist.thrown = "replace" <=> (ipc = "thrown" /\ hist.renameFails = 2)

(***************************************************************************)
(* C5 as stated: the original is deleted only after the first move failed, *)
(* the move is retried exactly once, and when the retry fails too the      *)
(* temporary file is deleted, a failure is reported and no file is left at *)
(* the target path.                                                        *)
(***************************************************************************)
C5_NoFileLeftAfterFailedRetry ==
    /\ C5_RemoveAndRetryOrder
    /\ hist.renameFails = 2 /\ ipc = "thrown" =>
          /\ hist.thrown = "replace"
          /\ disk.tmp = NoFile
          /\ disk.p = NoFile

(***************************************************************************)
(* C5 amended: the original is deleted only after the first move failed,   *)
(* the move is retried exactly once, and when the retry fails too a        *)
(* removal of the temporary file is attempted and a failure is reported;   *)
(* the temporary file is gone when that removal succeeded, no file is left *)
(* at the target path when the removal of the original succeeded, and the  *)
(* original file is left as it was when the removal of the original failed.*)
(***************************************************************************)
C5_FailedRetryOutcome ==
    /\ C5_RemoveAndRetryOrder
    /\ hist.renameFails = 2 /\ ipc = "thrown" =>
          /\ hist.thrown = "replace"
          /\ hist.removeTmp # "none"
          /\ hist.removeTmp = "ok" => disk.tmp = NoFile
          /\ hist.removeOrig = "ok" => disk.p = NoFile
          /\ hist.removeOrig = "failed" => disk.p = hist.orig

\* both renames failed after the original was removed: nothing is left
C5_Witness ==
    /\ ipc = "thrown"
    /\ hist.thrown = "replace"
    /\ hist.renameFails = 2
    /\ hist.removeOrig = "ok"
    /\ hist.orig = TestCp1251
    /\ disk.p = NoFile
    /\ disk.tmp = NoFile

(***************************************************************************)
(* C11, C12: what the decoders emit.                                       *)
(***************************************************************************)
\* a Unicode scalar value
IsScalar(cp) == cp \in 0..\h10FFFF /\ ~(cp \in \hD800..\hDFFF)

\* the k-th four-byte unit of b, most significant byte first
UnitOctets(b, k, bigEndian) ==
    LET o == SubSeq(b, 4 * k - 3, 4 * k)
    IN IF bigEndian THEN o ELSE << o[4], o[3], o[2], o[1] >>

\* what the claim has the UTF-32 decoder emit for one unit
ExpectedScalar32(o) ==
    LET low == (o[2] * 256 + o[3]) * 256 + o[4]
    IN IF o[1] = 0 /\ IsScalar(low) THEN low ELSE \hFFFD

\* the code-page table of a SingleByte value, as a function of the byte
CodePage(t) ==
    LET cells == IF t = "CP1251" THEN CP1251_TABLE
                 ELSE IF t = "KOI8R" THEN KOI8R_TABLE
                 ELSE IF t = "ISO8859_5" THEN ISO8859_5_TABLE
                 ELSE MACCYR_TABLE
    IN [b \in \h80..\hFF |-> cells[b - \h7F]]

Decoded == pc \in {"decoded", "decoded32", "decoded8"}

\* C11: every code point emitted by the UTF-16 decoder, the UTF-32 decoder and
\* the single-byte decoder is a scalar value (in 0..0x10FFFF, outside
\* 0xD800..0xDFFF); the UTF-32 decoder emits one code point per whole four-byte
\* unit, dropping a trailing partial unit, and replaces a unit above 0x10FFFF
\* or in the surrogate range by U+FFFD.
C11_DecodersEmitScalars ==
    /\ Decoded => \A k \in 1..Len(u32) : IsScalar(u32[k])
    /\ pc = "decoded32" =>
          /\ Len(u32) = Len(input) \div 4
          /\ \A k \in 1..Len(u32) :
                u32[k] = ExpectedScalar32(UnitOctets(input, k, be))

\* the UTF-32 decoder replaced a surrogate, kept a scalar and dropped a
\* trailing partial unit
C11_Witness ==
    /\ pc = "decoded32"
    /\ be
    /\ Len(input) = 5
    /\ SubSeq(input, 1, 4) = << \h00, \h00, \hD8, \h00 >>
    /\ u32 = << \hFFFD >>

\* C12: for each of the four tables the single-byte decoder emits exactly one
\* code point per input byte: a byte below 0x80 yields its own value, a byte
\* at or above 0x80 yields its table cell, a cell of 0x0000 yields U+FFFD, so
\* no byte at or above 0x80 decodes to 0x0000.
C12_OneCodePointPerByte ==
    pc = "decoded8" =>
        /\ table \in SingleByte
        /\ Len(u32) = Len(input)
        /\ \A k \in 1..Len(input) :
              LET b == input[k] IN
              IF b < \h80 THEN u32[k] = b
              ELSE /\ CodePage(table)[b] # \h0000 => u32[k] = CodePage(table)[b]
                   /\ CodePage(table)[b] = \h0000 => u32[k] = \hFFFD
                   /\ u32[k] # \h0000

\* CP1251 decoded its undefined byte 0x98 between an ASCII byte and a letter
C12_Witness ==
    /\ pc = "decoded8"
    /\ table = "CP1251"
    /\ Len(input) >= 2
    /\ input[1] = \h41
    /\ input[2] = \h98
    /\ u32[1] = \h41
    /\ u32[2] = \hFFFD

(***************************************************************************)
(* C13: appending Cyrillic text.                                           *)
(***************************************************************************)
\* a >= b on two scores held as num / (2 * den)
AtLeast(a, b) == a.num * b.den >= b.num * a.den

\* C13: for every code-point sequence s and every non-empty sequence c of
\* scalars in the Cyrillic block 0x0400-0x04FF, the score of s followed by c
\* is greater than or equal to the score of s.
C13_AppendingCyrillicNeverLowers ==
    pc = "rescored" =>
        /\ suffix # << >>
        /\ \A k \in 1..Len(suffix) : suffix[k] \in \h0400..\h04FF
        /\ AtLeast(scores[2], scores[1])

\* the tight case: a text that is all Cyrillic already keeps its score of 2.5
C13_Witness ==
    /\ pc = "rescored"
    /\ Len(text) = 2
    /\ Len(suffix) = 2
    /\ \A k \in 1..Len(text) : text[k] \in \h0400..\h04FF
    /\ scores[1] = [num |-> 10, den |-> 2]
    /\ scores[2] = [num |-> 20, den |-> 4]

(***************************************************************************)
(* C14: the temporary file after a reported failure.                       *)
(***************************************************************************)
\* the call opened path.utf8.tmp before it threw: the file there is its own
TmpOpenedByCall == hist.thrown \in {"write", "replace"}

\* C14: whenever ConvertFileToUtf8Inplace reports a failure (read failure,
\* failure to open or write the temporary file, or failure of both move
\* attempts), no temporary file created by that call remains on disk when it
\* returns.
C14_NoTmpLeftAfterFailure ==
    ipc = "thrown" =>
        /\ hist.thrown \in {"read", "open", "write", "replace"}
        /\ TmpOpenedByCall => disk.tmp = NoFile
        /\ ~TmpOpenedByCall => disk.tmp \in {NoFile, StaleTmp}

=============================================================================
